---- MODULE Spec2Model ----
(***************************************************************************)
(* Audio relay service (audio-relay-service): the supervisor App::run, the *)
(* accept loop App::main_loop, and the per-connection handlers.            *)
(*                                                                         *)
(* App::main_loop (app.rs) calls the handle_connection defined in app.rs   *)
(* itself; vc::handle_connection (vc/mod.rs), which authenticates through  *)
(* common::services::auth::auth_user_for_session, is a second handler of   *)
(* the same shape.  Spec runs the accept loop with the app.rs handler,     *)
(* VcSpec runs the same supervisor and accept loop with the vc handler.    *)
(*                                                                         *)
(* The transport (quinn) is modelled by what the handlers observe of it:   *)
(*   - Endpoint::open_connections() counts the connections the endpoint    *)
(*     holds; an Incoming enters that count when it is accepted, which     *)
(*     `conn.await` does at the first poll of the spawned task, and leaves *)
(*     it when the closed connection has drained;                          *)
(*   - every await on the peer (handshake, accept_bi, read_to_end,         *)
(*     read_datagram) completes with a value or with an error.             *)
(***************************************************************************)
EXTENDS Naturals, Integers, Sequences, FiniteSets

\* Bounds of the model.
MaxConns == 2          \* incoming connections over a run
MaxLimit == 2          \* largest configured connection_limit
MaxDgrams == 1         \* datagrams a session records
MaxTicks == 1          \* interval ticks at which a session writes silence
MaxNow == 40           \* ms of wall time a followed playback_loop covers
MsStep == 5            \* ms the clock advances by in one step
MaxFrames == 12        \* frames a followed audio source encodes
MaxTasks == 2          \* streaming tasks the client's manager spawns
MaxCalls == 4          \* calls of join_room, exit_room and set_muted

\* Program constants.
AuthReadLimit == 1024          \* auth.rs: recv.read_to_end(1024)
LegacyReadLimit == 4096        \* app.rs: recv.read_to_end(4096)
Pow16 == 65536                 \* placeholder_id: u32 is two 16-bit halves
FrameSamples == 960            \* vc/mod.rs: pcm_buf = vec![0i16; 960]
SampleRate == 48000            \* vc/mod.rs: SAMPLE_RATE
TickMillis == 20               \* vc/mod.rs: interval(Duration::from_millis(20))
FRAME_SIZE == 960              \* audio_source.rs: FRAME_SIZE
BUF_SIZE == 10                 \* audio_source.rs: BUF_SIZE
InitialStartTime == 1200       \* audio_source.rs: let mut start_time = 1200
TimestampStep == 160           \* audio_source.rs: start_time += 160
SignalCapacity == 12           \* audio_manager.rs: mpsc::channel(12)

Conns == 1..MaxConns
NoConn == 0

VARIABLES
    connection_limit,     \* AppConfig::connection_limit
    cancellation_token,   \* TRUE once CancellationToken::cancel() was called
    task_tracker,         \* [closed, tasks]: TaskTracker
    run_pc,               \* position of App::run
    main_loop_pc,         \* position of App::main_loop
    incoming_conn,        \* the Incoming the accept loop holds (conn), or NoConn
    open_connections,     \* connections the endpoint counts
    conn                  \* per connection: state of the Incoming / of its handler

\* One call of vc::playback_loop, in detail (PlaybackSpec).
VARIABLES
    scenario,             \* the datagrams the peer's traffic delivers, in arrival order
    arrivals,             \* those read_datagram() has not returned yet
    wav_writer,           \* the samples written to the recorder, as runs
    last_write_time,      \* last_write_time, ms
    now,                  \* Instant::now(), ms since playback_loop was entered
    interval,             \* the deadline of interval's next tick, ms
    playback_pc,          \* "idle", "start", "loop", "returned"
    playback_result       \* the value playback_loop returned

pvars == << scenario, arrivals, wav_writer, last_write_time, now, interval,
            playback_pc, playback_result >>

\* AppConfig::from_args (ConfigSpec).
VARIABLES
    env_config_path,      \* std::env::var_os(CONFIG_PATH_ENV), or NoPath
    args,                 \* AppConfigArgs: [config_path, config]
    files,                \* the file system: what is at each path
    opened,               \* the paths File::open was called with
    config_result         \* what from_args returned

cvars == << env_config_path, args, files, opened, config_result >>

\* App::create_endpoint (StartupSpec).
VARIABLES
    options               \* self.config.clone(), as create_endpoint meets it

uvars == << options >>

\* RTPOpusAudioSource (client, audio_source.rs): the input stream's data
\* callback and the channel it feeds (SourceSpec).
VARIABLES
    overflow_checks,      \* the build panics on integer overflow (dev profile)
    playing,              \* the AtomicBool the callback loads
    pcm_buffer,           \* pcm_buffer.len()
    sequence_no,          \* u16
    start_time,           \* u32 as [hi, lo]
    packet,               \* header of the last create_rtp_packet(..)
    receiver,             \* the headers queued in the mpsc channel
    source_pc,            \* "none", "idle", "callback" or "panicked"
    frames                \* frames encoded since the followed run began

avars == << overflow_checks, playing, pcm_buffer, sequence_no, start_time,
            packet, receiver, source_pc, frames >>

\* AudioManager (client, audio_manager.rs) and the streaming tasks it
\* spawns (ManagerSpec).
VARIABLES
    state,                \* AudioManagerState behind the mutex
    task,                 \* the spawned streaming tasks, by order of spawn
    calls                 \* the calls made of join_room, exit_room and
                          \* set_muted: how many, and which came last

mvars == << state, task, calls >>

\* The variables of the components other than the server and playback_loop.
xvars == << cvars, uvars, avars, mvars >>

server_vars ==
    << connection_limit, cancellation_token, task_tracker, run_pc,
       main_loop_pc, incoming_conn, open_connections, conn >>

vars == << connection_limit, cancellation_token, task_tracker, run_pc,
           main_loop_pc, incoming_conn, open_connections, conn, pvars, xvars >>

----------------------------------------------------------------------------
\* Auth requests a peer may put on the control stream.  json: the bytes are
\* one JSON value followed by nothing; fields: the object's keys;
\* placeholder_id: the number under that key; len: the length in bytes.
\* A number is written [neg, hi, lo] and stands for (+/-)(hi * 2^16 + lo),
\* lo < 2^16, so that the u32 range is hi < 2^16.
Number(neg, hi, lo) == [neg |-> neg, hi |-> hi, lo |-> lo]

Request(len, json, fields, id) ==
    [len |-> len, json |-> json, fields |-> fields, placeholder_id |-> id]

NoRequest == Request(0, FALSE, {}, Number(FALSE, 0, 0))

Requests ==
    { \* {"placeholder_id":10}
      Request(21, TRUE, {"placeholder_id"}, Number(FALSE, 0, 10)),
      \* the same, padded with whitespace to the limit
      Request(1024, TRUE, {"placeholder_id"}, Number(FALSE, 0, 10)),
      \* the same, one byte over the limit
      Request(1025, TRUE, {"placeholder_id"}, Number(FALSE, 0, 10)),
      \* {}
      Request(2, TRUE, {}, Number(FALSE, 0, 0)),
      \* {"placeholder_id":4294967296}
      Request(29, TRUE, {"placeholder_id"}, Number(FALSE, Pow16, 0)),
      \* not JSON
      Request(5, FALSE, {}, Number(FALSE, 0, 0)),
      \* over both read limits
      Request(4097, FALSE, {}, Number(FALSE, 0, 0)) }

ReadToEndOffByOne(req, limit) ==
    IF req.len >= limit THEN "TooLong" ELSE "Ok"

\* recv.read_to_end(limit): the whole stream, or TooLong.
ReadToEnd(req, limit) ==
    IF req.len > limit THEN "TooLong" ELSE "Ok"

\* serde_json::from_slice::<ArsAuthRequest>: a JSON object with a u32
\* placeholder_id (unknown keys are ignored).
FromSlice(req) ==
    /\ req.json
    /\ "placeholder_id" \in req.fields
    /\ ~req.placeholder_id.neg \/ (req.placeholder_id.hi = 0 /\ req.placeholder_id.lo = 0)
    /\ req.placeholder_id.hi < Pow16

\* ArsAuthRequest::new(): Self { placeholder_id: 10 }.
ArsAuthRequestNew == [placeholder_id |-> 10]

\* The number of decimal digits serde_json writes for an unsigned integer.
RECURSIVE Digits(_)
Digits(n) == IF n < 10 THEN 1 ELSE 1 + Digits(n \div 10)

ToVecPascalCase(r) ==
    Request(1 + (Len("PlaceholderId") + 2) + 1 + Digits(r.placeholder_id) + 1,
            TRUE, {"PlaceholderId"},
            Number(FALSE, r.placeholder_id \div Pow16, r.placeholder_id % Pow16))

\* serde_json::ser::to_vec(&ArsAuthRequest): the compact JSON object
\* {"placeholder_id":<decimal>}: the struct's field name as the key (the
\* struct has no rename attribute), the u32 in decimal, no whitespace.
ToVec(r) ==
    Request(1 + (Len("placeholder_id") + 2) + 1 + Digits(r.placeholder_id) + 1,
            TRUE, {"placeholder_id"},
            Number(FALSE, r.placeholder_id \div Pow16, r.placeholder_id % Pow16))

\* The client's tx.read_to_end(1024) of the response.
ClientReadLimit == 1024

\* Display of ArsAuthError (serde flavour, derive_more::Display): the
\* variant's name.
ToString(err) == err

NoClose == [code |-> -1, reason |-> ""]
Close(code, reason) == [code |-> code, reason |-> reason]

AuthErrorCloseMissing(err) == NoClose

\* connection.close(0u8.into(), auth_error.to_string().as_bytes())
AuthErrorClose(err) == Close(0, ToString(err))

ShutdownCloseCodeZero == Close(0, "server shutdown")

\* connection.close(1u32.into(), b"server shutdown")
ShutdownClose == Close(1, "server shutdown")

\* st: where the connection is.
\*   "none" not yet arrived, "incoming" queued at the endpoint, "held" taken by
\*   the accept loop, "refused", "retried", "spawned" task spawned and not yet
\*   polled, "connecting" conn.await, "accept_bi", "read_to_end", "active"
\*   (select over playback_loop and cancelled), "done" handler returned,
\*   "drained" forgotten by the endpoint.
NewConn ==
    [ st |-> "none", validated |-> FALSE, request |-> NoRequest,
      ctrl |-> << >>, finished |-> FALSE, close |-> NoClose,
      result |-> "none", via |-> "none", dgrams |-> 0, silence |-> 0 ]

----------------------------------------------------------------------------
\* AppConfig::from_args: the effective configuration.
\*
\* A configuration gives each setting a value.  A value is named after where
\* it was written: the YAML file at path p gives every setting the value p,
\* the command line gives the settings it names the value "cli".
Settings ==
    { "environment", "key", "cert", "listen", "connection_limit", "log_level" }

NoPath == ""
None == "None"

\* --config: the flag's value, or its default_value "config.yaml".
DefaultConfigPath == "config.yaml"
CliPaths == { DefaultConfigPath, "cli.yaml" }

\* Values of the environment variable CONFIG_PATH_ENV.
EnvPaths == { NoPath, "env.yaml" }

Paths == CliPaths \cup (EnvPaths \ {NoPath})

\* What is at a path: no file, a file that does not deserialize as AppConfig
\* (not YAML, or a field is missing), or a complete AppConfig.
FileKinds == { "missing", "invalid", "valid" }

\* <AppConfig as ClapSerde>::Opt as clap parsed it: every field is an
\* Option, None unless its flag was given; --key and --cert require each
\* other.
CliOpts ==
    { opt \in [Settings -> { None, "cli" }] :
        (opt["key"] = None) <=> (opt["cert"] = None) }

NoConfig == [s \in Settings |-> None]

NoResult == [status |-> "none", config |-> NoConfig]

SelectPathCliFirst(env, config_path) ==
    IF config_path # DefaultConfigPath \/ env = NoPath THEN config_path ELSE env

\* Lines 110-113: the environment variable, when set, replaces
\* args.config_path.
SelectPath(env, config_path) == IF env # NoPath THEN env ELSE config_path

LoadOrDefault(fs, path) ==
    IF fs[path] = "missing" THEN [status |-> "Err", config |-> NoConfig]
    ELSE [status |-> "Ok", config |-> [s \in Settings |-> path]]

\* Lines 114-123 without the merge: File::open, then
\* serde_yaml::from_reader::<_, AppConfig>; either error is returned.
Load(fs, path) ==
    IF fs[path] = "missing" THEN [status |-> "Err", config |-> NoConfig]
    ELSE IF fs[path] = "invalid" THEN [status |-> "Err", config |-> NoConfig]
    ELSE [status |-> "Ok", config |-> [s \in Settings |-> path]]

MergeFileWins(cfg, opt) == cfg

\* cfg.merge(&mut args.config): a field the command line gave replaces the
\* file's.
Merge(cfg, opt) ==
    [s \in Settings |-> IF opt[s] # None THEN opt[s] ELSE cfg[s]]

\* from_args has not been called: no input is followed.
ConfigIdle ==
    /\ env_config_path = NoPath
    /\ args = [config_path |-> DefaultConfigPath, config |-> NoConfig]
    /\ files = [p \in Paths |-> "missing"]
    /\ opened = {}
    /\ config_result = NoResult

ConfigInit ==
    /\ env_config_path \in EnvPaths
    /\ args \in [config_path : CliPaths, config : CliOpts]
    /\ files \in [Paths -> FileKinds]
    /\ opened = {}
    /\ config_result = NoResult

\* AppConfig::from_args(&mut args).
FromArgs ==
    /\ config_result.status = "none"
    /\ LET path == SelectPath(env_config_path, args.config_path)
           loaded == Load(files, path)
       IN  /\ args' = [args EXCEPT !.config_path = path]
           /\ opened' = opened \cup {path}
           /\ config_result' =
                 IF loaded.status = "Ok"
                 THEN [status |-> "Ok", config |-> Merge(loaded.config, args.config)]
                 ELSE loaded
    /\ UNCHANGED << env_config_path, files >>
    /\ UNCHANGED << server_vars, pvars, uvars, avars, mvars >>

----------------------------------------------------------------------------
\* App::create_endpoint.  options is what the configured key, certificate
\* and listen address turn out to be: key_der and cert_der say whether the
\* path's extension is "der"; the other fields say whether the step
\* succeeds.
StartupOptions ==
    [ key_der : BOOLEAN, key_ok : BOOLEAN, cert_der : BOOLEAN,
      cert_ok : BOOLEAN, single_cert_ok : BOOLEAN, quic_ok : BOOLEAN,
      bind_ok : BOOLEAN, local_addr_ok : BOOLEAN ]

\* Every step of create_endpoint succeeds.
Usable(o) ==
    /\ o.key_ok
    /\ o.cert_ok
    /\ o.single_cert_ok
    /\ o.quic_ok
    /\ o.bind_ok
    /\ o.local_addr_ok

\* The endpoint exists: the options were usable.
StartupIdle == options \in { o \in StartupOptions : Usable(o) /\ ~o.key_der /\ ~o.cert_der }

\* create_endpoint: Ok, or the `?` it returns through.
CreateEndpoint(o) ==
    IF ~o.key_ok
    THEN IF o.key_der THEN "failed to read private key file"
         ELSE "failed to read PEM from private key file"
    ELSE IF ~o.cert_ok
    THEN IF o.cert_der THEN "failed to read certificate chain file"
         ELSE "invalid PEM-encoded certificate"
    ELSE IF ~o.single_cert_ok THEN "with_single_cert"
    ELSE IF ~o.quic_ok THEN "QuicServerConfig::try_from"
    ELSE IF ~o.bind_ok THEN "Endpoint::server"
    ELSE "Ok"

----------------------------------------------------------------------------
\* RTPOpusAudioSource::new: the data callback of the input stream.

\* A u32 as two 16-bit halves.
U32(h, l) == [hi |-> h, lo |-> l]

NoPacket == [sequence_number |-> -1, timestamp |-> U32(0, 0)]

\* create_rtp_packet: RtpHeader::new(111, sq_no, timestamp, ssrc).
create_rtp_packet(sq_no, timestamp) ==
    [sequence_number |-> sq_no, timestamp |-> timestamp]

\* t + n in unbounded arithmetic overflows a u32.
Overflows32(t, n) == t.hi = Pow16 - 1 /\ t.lo + n >= Pow16

\* t + n modulo 2^32, for n < 2^16.
WrappingAdd32(t, n) ==
    U32((t.hi + ((t.lo + n) \div Pow16)) % Pow16, (t.lo + n) % Pow16)

\* sequence_no after k frames were encoded: k times `sequence_no += 1`
\* from 0.
SequenceAfter(k) == k % Pow16

\* start_time after k frames were encoded: k times `start_time += 160`
\* from 1200, modulo 2^32.
StartTimeAfter(k) ==
    LET low == TimestampStep * (k % Pow16) + InitialStartTime
    IN  U32((TimestampStep * (k \div Pow16) + (low \div Pow16)) % Pow16,
            low % Pow16)

\* The numbers of frames already encoded when the followed run begins: a
\* new source, one frame before sequence_no reaches 65535, and two frames
\* before start_time passes 2^32.
FramesBefore == {0, 65534, 26843536}

\* The lengths of the data slices the device hands to the callback.
DataLens == {480, 960, 1920}

\* No audio source exists.
SourceIdle ==
    /\ overflow_checks = FALSE
    /\ playing = FALSE
    /\ pcm_buffer = 0
    /\ sequence_no = 0
    /\ start_time = U32(0, InitialStartTime)
    /\ packet = NoPacket
    /\ receiver = << >>
    /\ source_pc = "none"
    /\ frames = 0

\* The callback is entered with a slice of len samples: when not playing
\* it clears pcm_buffer and returns, otherwise it extends pcm_buffer.
DataCallback(len) ==
    /\ source_pc = "idle"
    /\ frames < MaxFrames
    /\ IF ~playing
       THEN /\ pcm_buffer' = 0
            /\ UNCHANGED source_pc
       ELSE /\ pcm_buffer' = pcm_buffer + len
            /\ source_pc' = "callback"
    /\ UNCHANGED << overflow_checks, playing, sequence_no, start_time,
                    packet, receiver, frames >>
    /\ UNCHANGED << server_vars, pvars, cvars, uvars, mvars >>

\* sender.try_send(p): queued when the channel has room, dropped when it
\* is full.
TrySend(queue, p) == IF Len(queue) < BUF_SIZE THEN Append(queue, p) ELSE queue

\* One pass of `while pcm_buffer.len() >= FRAME_SIZE`: a frame is drained
\* and encoded; on Ok the packet is created from sequence_no and
\* start_time, both are advanced and the packet is sent.  `+=` on an
\* integer at its maximum panics when overflow checks are compiled in and
\* wraps otherwise; a panic leaves the callback before try_send.
EncodeFrame(encoded) ==
    /\ source_pc = "callback"
    /\ pcm_buffer >= FRAME_SIZE
    /\ pcm_buffer' = pcm_buffer - FRAME_SIZE
    /\ frames' = frames + 1
    /\ IF ~encoded
       THEN UNCHANGED << sequence_no, start_time, packet, receiver,
                         source_pc >>
       ELSE /\ packet' = create_rtp_packet(sequence_no, start_time)
            /\ IF overflow_checks /\ sequence_no = Pow16 - 1
               THEN /\ source_pc' = "panicked"
                    /\ UNCHANGED << sequence_no, start_time, receiver >>
               ELSE /\ sequence_no' = (sequence_no + 1) % Pow16
                    /\ IF overflow_checks
                          /\ Overflows32(start_time, TimestampStep)
                       THEN /\ source_pc' = "panicked"
                            /\ UNCHANGED << start_time, receiver >>
                       ELSE /\ start_time' =
                                   WrappingAdd32(start_time, TimestampStep)
                            /\ receiver' = TrySend(receiver, packet')
                            /\ UNCHANGED source_pc
    /\ UNCHANGED << overflow_checks, playing >>
    /\ UNCHANGED << server_vars, pvars, cvars, uvars, mvars >>

\* The while loop ends and the callback returns; pcm_buffer keeps the
\* samples short of a frame.
CallbackReturn ==
    /\ source_pc = "callback"
    /\ pcm_buffer < FRAME_SIZE
    /\ source_pc' = "idle"
    /\ UNCHANGED << overflow_checks, playing, pcm_buffer, sequence_no,
                    start_time, packet, receiver, frames >>
    /\ UNCHANGED << server_vars, pvars, cvars, uvars, mvars >>

\* RTPOpusAudioSource::read: self.receiver.recv() takes the oldest packet.
Read ==
    /\ source_pc # "none"
    /\ receiver # << >>
    /\ receiver' = Tail(receiver)
    /\ UNCHANGED << overflow_checks, playing, pcm_buffer, sequence_no,
                    start_time, packet, source_pc, frames >>
    /\ UNCHANGED << server_vars, pvars, cvars, uvars, mvars >>

\* RTPOpusAudioSource::set_playing.
SetPlaying(b) ==
    /\ source_pc # "none"
    /\ playing # b
    /\ playing' = b
    /\ UNCHANGED << overflow_checks, pcm_buffer, sequence_no, start_time,
                    packet, receiver, source_pc, frames >>
    /\ UNCHANGED << server_vars, pvars, cvars, uvars, mvars >>

----------------------------------------------------------------------------
\* AudioManager: join_room, exit_room, set_muted and the task join_room
\* spawns (handle_audio_streaming and the error branch around it).

Tasks == 1..MaxTasks
NoTask == 0

\* A streaming task.  pc: "none" not spawned, "connecting" in
\* create_audio_connection, "authenticating" in
\* authenticate_audio_connection, "authenticated" active_session written
\* and RTPOpusAudioSource::new not yet called, "streaming" in the select
\* loop, "ended" returned Ok, "failed" returned Err and the error branch
\* has run.  signals is the task's channel; play is `!muted` as read after
\* connecting; playing is the audio source's flag; via names the failing
\* call.
NewTask ==
    [ pc |-> "none", signals |-> << >>, play |-> FALSE, playing |-> FALSE,
      connection |-> "none", via |-> "none" ]

\* AudioManagerState::default(); signal_sender is the task whose channel
\* the stored Sender feeds, or NoTask for None.
DefaultState ==
    [ active_session |-> FALSE, stream_error |-> "None", muted |-> FALSE,
      signal_sender |-> NoTask ]

\* No method of the manager has been called.
NoCalls == [n |-> 0, last |-> "none"]

\* One more call, of method.
Called(method) == [n |-> calls.n + 1, last |-> method]

\* AudioManager::new.
ManagerIdle ==
    /\ state = DefaultState
    /\ task = [t \in Tasks |-> NewTask]
    /\ calls = NoCalls

get_active == state.active_session

is_errored == state.stream_error # "None"

\* The tasks spawned so far, and those still running.
Spawned == { t \in Tasks : task[t].pc # "none" }

Alive == { t \in Tasks : task[t].pc \notin {"none", "ended", "failed"} }

\* sender.try_send(signal) on the channel of task t: queued when the
\* receiver lives and the channel has room; the result is ignored.
TrySendSignal(tk, t, signal) ==
    IF tk[t].pc \in {"ended", "failed"} \/ Len(tk[t].signals) >= SignalCapacity
    THEN tk
    ELSE [tk EXCEPT ![t].signals = Append(@, signal)]

JoinRoomUnguarded ==
    /\ calls.n < MaxCalls
    /\ calls' = Called("join_room")
    /\ Cardinality(Spawned) < MaxTasks
    /\ LET t == Cardinality(Spawned) + 1
       IN /\ state' = [state EXCEPT !.stream_error = "None",
                                     !.signal_sender = t]
          /\ task' = [task EXCEPT ![t].pc = "connecting"]
    /\ UNCHANGED << server_vars, pvars, cvars, uvars, avars >>

\* join_room: returns when active_session is Some; otherwise clears
\* stream_error, stores the Sender of a new channel and spawns the task.
JoinRoom ==
    /\ calls.n < MaxCalls
    /\ calls' = Called("join_room")
    /\ IF state.active_session
       THEN UNCHANGED << state, task >>
       ELSE /\ Cardinality(Spawned) < MaxTasks
            /\ LET t == Cardinality(Spawned) + 1
               IN /\ state' = [state EXCEPT !.stream_error = "None",
                                             !.signal_sender = t]
                  /\ task' = [task EXCEPT ![t].pc = "connecting"]
    /\ UNCHANGED << server_vars, pvars, cvars, uvars, avars >>

\* exit_room: try_send(EXIT) on the stored Sender, then clear
\* active_session, signal_sender and stream_error.
ExitRoom ==
    /\ calls.n < MaxCalls
    /\ calls' = Called("exit_room")
    /\ task' = IF state.signal_sender # NoTask
               THEN TrySendSignal(task, state.signal_sender, "EXIT")
               ELSE task
    /\ state' = [state EXCEPT !.active_session = FALSE,
                              !.signal_sender = NoTask,
                              !.stream_error = "None"]
    /\ UNCHANGED << server_vars, pvars, cvars, uvars, avars >>

\* set_muted: write the flag, then try_send(MUTE or UNMUTE) on the stored
\* Sender.
SetMuted(muted) ==
    /\ calls.n < MaxCalls
    /\ calls' = Called("set_muted")
    /\ state' = [state EXCEPT !.muted = muted]
    /\ task' = IF state.signal_sender # NoTask
               THEN TrySendSignal(task, state.signal_sender,
                                  IF muted THEN "MUTE" ELSE "UNMUTE")
               ELSE task
    /\ UNCHANGED << server_vars, pvars, cvars, uvars, avars >>

TaskFailedSilently(t, via) ==
    /\ UNCHANGED state
    /\ task' = [task EXCEPT ![t].pc = "failed", ![t].via = via,
                            ![t].signals = << >>,
                            ![t].connection =
                                IF @ = "open" THEN "dropped" ELSE @,
                            ![t].playing = FALSE]

\* handle_audio_streaming returned Err: the task's error branch stores the
\* error and clears active_session and signal_sender; the Connection and
\* the Receiver are dropped.
TaskFailed(t, via) ==
    /\ state' = [state EXCEPT !.stream_error = via,
                              !.active_session = FALSE,
                              !.signal_sender = NoTask]
    /\ task' = [task EXCEPT ![t].pc = "failed", ![t].via = via,
                            ![t].signals = << >>,
                            ![t].connection =
                                IF @ = "open" THEN "dropped" ELSE @,
                            ![t].playing = FALSE]

\* create_audio_connection is Ok; `play = !muted` is read.
ConnectOk(t) ==
    /\ task[t].pc = "connecting"
    /\ task' = [task EXCEPT ![t].pc = "authenticating",
                            ![t].connection = "open",
                            ![t].play = ~state.muted]
    /\ UNCHANGED << state, calls >>
    /\ UNCHANGED << server_vars, pvars, cvars, uvars, avars >>

\* create_audio_connection is Err.
ConnectErr(t) ==
    /\ task[t].pc = "connecting"
    /\ TaskFailed(t, "create_audio_connection")
    /\ UNCHANGED calls
    /\ UNCHANGED << server_vars, pvars, cvars, uvars, avars >>

\* authenticate_audio_connection is Ok: active_session = Some(..).
AuthOk(t) ==
    /\ task[t].pc = "authenticating"
    /\ task' = [task EXCEPT ![t].pc = "authenticated"]
    /\ state' = [state EXCEPT !.active_session = TRUE]
    /\ UNCHANGED calls
    /\ UNCHANGED << server_vars, pvars, cvars, uvars, avars >>

\* authenticate_audio_connection is Err.
AuthErr(t) ==
    /\ task[t].pc = "authenticating"
    /\ TaskFailed(t, "authenticate_audio_connection")
    /\ UNCHANGED calls
    /\ UNCHANGED << server_vars, pvars, cvars, uvars, avars >>

\* RTPOpusAudioSource::new(play) is Ok: the select loop is entered.
SourceNewOk(t) ==
    /\ task[t].pc = "authenticated"
    /\ task' = [task EXCEPT ![t].pc = "streaming", ![t].playing = task[t].play]
    /\ UNCHANGED << state, calls >>
    /\ UNCHANGED << server_vars, pvars, cvars, uvars, avars >>

\* RTPOpusAudioSource::new(play) is Err.
SourceNewErr(t) ==
    /\ task[t].pc = "authenticated"
    /\ TaskFailed(t, "RTPOpusAudioSource::new")
    /\ UNCHANGED calls
    /\ UNCHANGED << server_vars, pvars, cvars, uvars, avars >>

\* The select loop receives a signal: EXIT closes the connection and leaves
\* the loop (the task returns Ok and touches no state); MUTE and UNMUTE set
\* the source's flag and state.muted.
RecvSignal(t) ==
    /\ task[t].pc = "streaming"
    /\ task[t].signals # << >>
    /\ LET signal == Head(task[t].signals)
       IN IF signal = "EXIT"
          THEN /\ task' = [task EXCEPT ![t].pc = "ended",
                                       ![t].signals = << >>,
                                       ![t].connection = "closed",
                                       ![t].playing = FALSE]
               /\ UNCHANGED state
          ELSE /\ task' = [task EXCEPT ![t].signals = Tail(@),
                                       ![t].playing = (signal = "UNMUTE")]
               /\ state' = [state EXCEPT !.muted = (signal = "MUTE")]
    /\ UNCHANGED calls
    /\ UNCHANGED << server_vars, pvars, cvars, uvars, avars >>

\* The select loop reads a packet and connection.send_datagram is Err.
SendDatagramErr(t) ==
    /\ task[t].pc = "streaming"
    /\ TaskFailed(t, "send_datagram")
    /\ UNCHANGED calls
    /\ UNCHANGED << server_vars, pvars, cvars, uvars, avars >>

\* The components that are not followed are at rest.
OthersIdle == ConfigIdle /\ StartupIdle /\ SourceIdle /\ ManagerIdle

\* No playback_loop is followed in detail.
PlaybackIdle ==
    /\ scenario = << >>
    /\ arrivals = << >>
    /\ wav_writer = << >>
    /\ last_write_time = 0
    /\ now = 0
    /\ interval = 0
    /\ playback_pc = "idle"
    /\ playback_result = "none"

Init ==
    /\ PlaybackIdle
    /\ OthersIdle
    /\ connection_limit \in 0..MaxLimit
    /\ cancellation_token = FALSE
    /\ task_tracker = [closed |-> FALSE, tasks |-> {}]
    /\ run_pc = "handle_signal"
    /\ main_loop_pc = "select"
    /\ incoming_conn = NoConn
    /\ open_connections = {}
    /\ conn = [c \in Conns |-> NewConn]

\* The server is not followed: it is as App::new left it.
ServerIdle ==
    /\ connection_limit = 0
    /\ cancellation_token = FALSE
    /\ task_tracker = [closed |-> FALSE, tasks |-> {}]
    /\ run_pc = "new"
    /\ main_loop_pc = "not_spawned"
    /\ incoming_conn = NoConn
    /\ open_connections = {}
    /\ conn = [c \in Conns |-> NewConn]

\* AppConfig::from_args applied to every combination of environment
\* variable, command line and files.
\* from_args is called in a process in which nothing else has started.
ConfigStart ==
    /\ ConfigInit
    /\ ServerIdle
    /\ PlaybackIdle
    /\ StartupIdle
    /\ SourceIdle
    /\ ManagerIdle

ConfigSpec == ConfigStart /\ [][FromArgs]_vars

\* A source that has encoded k frames, for k in FramesBefore, in either
\* build profile; the channel has been read empty.
SourceInit ==
    /\ overflow_checks \in BOOLEAN
    /\ playing \in BOOLEAN
    /\ pcm_buffer = 0
    /\ \E k \in FramesBefore :
          /\ sequence_no = SequenceAfter(k)
          /\ start_time = StartTimeAfter(k)
          /\ packet = IF k = 0 THEN NoPacket
                      ELSE create_rtp_packet(SequenceAfter(k - 1),
                                             StartTimeAfter(k - 1))
    /\ receiver = << >>
    /\ source_pc = "idle"
    /\ frames = 0
    /\ ServerIdle
    /\ PlaybackIdle
    /\ ConfigIdle
    /\ StartupIdle
    /\ ManagerIdle

SourceNext ==
    \/ \E len \in DataLens : DataCallback(len)
    \/ \E encoded \in BOOLEAN : EncodeFrame(encoded)
    \/ CallbackReturn
    \/ Read
    \/ \E b \in BOOLEAN : SetPlaying(b)

SourceSpec == SourceInit /\ [][SourceNext]_vars

\* A new AudioManager, driven by its callers and its tasks.
ManagerInit ==
    /\ ManagerIdle
    /\ ServerIdle
    /\ PlaybackIdle
    /\ ConfigIdle
    /\ StartupIdle
    /\ SourceIdle

ManagerNext ==
    \/ JoinRoom
    \/ ExitRoom
    \/ \E muted \in BOOLEAN : SetMuted(muted)
    \/ \E t \in Tasks :
          \/ ConnectOk(t)
          \/ ConnectErr(t)
          \/ AuthOk(t)
          \/ AuthErr(t)
          \/ SourceNewOk(t)
          \/ SourceNewErr(t)
          \/ RecvSignal(t)
          \/ SendDatagramErr(t)

ManagerSpec == ManagerInit /\ [][ManagerNext]_vars

\* The signals k calls of set_muted leave in the channel when each call
\* toggles the flag, starting from unmuted: MUTE, UNMUTE, MUTE, ...
Toggles(k) == [i \in 1..k |-> IF i % 2 = 1 THEN "MUTE" ELSE "UNMUTE"]

\* A running session: join_room was called on a new manager, its task has
\* connected, authenticated and created the audio source unmuted, and
\* set_muted has since been called k times, toggling, for some k up to the
\* channel's capacity, with the task not yet polled again.
MuteInit ==
    /\ \E k \in 0..SignalCapacity :
          /\ state = [DefaultState EXCEPT !.active_session = TRUE,
                                          !.signal_sender = 1,
                                          !.muted = (k % 2 = 1)]
          /\ task = [t \in Tasks |->
                       IF t = 1
                       THEN [NewTask EXCEPT !.pc = "streaming",
                                            !.connection = "open",
                                            !.play = TRUE,
                                            !.playing = TRUE,
                                            !.signals = Toggles(k)]
                       ELSE NewTask]
    /\ calls = NoCalls
    /\ ServerIdle
    /\ PlaybackIdle
    /\ ConfigIdle
    /\ StartupIdle
    /\ SourceIdle

\* The session keeps running: set_muted is called and the task receives
\* signals.
MuteNext ==
    \/ \E muted \in BOOLEAN : SetMuted(muted)
    \/ \E t \in Tasks : RecvSignal(t)

MuteSpec == MuteInit /\ [][MuteNext]_vars

----------------------------------------------------------------------------
\* A peer's connection attempt reaches the endpoint.
Arrive(c, v) ==
    /\ conn[c].st = "none"
    /\ \A d \in Conns : d < c => conn[d].st # "none"
    /\ conn' = [conn EXCEPT ![c].st = "incoming", ![c].validated = v]
    /\ UNCHANGED << connection_limit, cancellation_token, task_tracker, run_pc,
                    main_loop_pc, incoming_conn, open_connections >>
    /\ UNCHANGED pvars
    /\ UNCHANGED xvars

----------------------------------------------------------------------------
\* App::main_loop

\* The admission policy of main_loop, in the order the code tests it:
\* open_connections() >= connection_limit, then !remote_address_validated().
AdmissionSwapped(open, limit, validated) ==
    IF ~validated THEN "retry"
    ELSE IF open >= limit THEN "refuse"
    ELSE "accept"

Admission(open, limit, validated) ==
    IF open >= limit THEN "refuse"
    ELSE IF ~validated THEN "retry"
    ELSE "accept"

\* select!: the branch `Some(conn) = endpoint.accept()` is taken.  The select
\* is not biased: the branch may be taken while cancelled() is ready too.
\* endpoint.accept() yields the connections in their order of arrival.
SelectAccept(c) ==
    /\ main_loop_pc = "select"
    /\ conn[c].st = "incoming"
    /\ \A d \in Conns : d < c => conn[d].st # "incoming"
    /\ main_loop_pc' = "accepted"
    /\ incoming_conn' = c
    /\ conn' = [conn EXCEPT ![c].st = "held"]
    /\ UNCHANGED << connection_limit, cancellation_token, task_tracker, run_pc,
                    open_connections >>
    /\ UNCHANGED pvars
    /\ UNCHANGED xvars

\* The body of the accept branch: refuse, retry, or spawn the handler on the
\* task tracker.  The handler's future is created here and first polled later.
Admit ==
    /\ main_loop_pc = "accepted"
    /\ LET c == incoming_conn
           d == Admission(Cardinality(open_connections), connection_limit,
                          conn[c].validated)
       IN  \/ /\ d = "refuse"
              /\ conn' = [conn EXCEPT ![c].st = "refused"]
              /\ UNCHANGED task_tracker
           \/ /\ d = "retry"
              /\ conn' = [conn EXCEPT ![c].st = "retried"]
              /\ UNCHANGED task_tracker
           \/ /\ d = "accept"
              /\ conn' = [conn EXCEPT ![c].st = "spawned"]
              /\ task_tracker' = [task_tracker EXCEPT !.tasks = @ \cup {c}]
    /\ main_loop_pc' = "select"
    /\ incoming_conn' = NoConn
    /\ UNCHANGED << connection_limit, cancellation_token, run_pc,
                    open_connections >>
    /\ UNCHANGED pvars
    /\ UNCHANGED xvars

\* select!: the branch `_ = self.cancellation_token.cancelled()` is taken.
SelectCancelled ==
    /\ main_loop_pc = "select"
    /\ cancellation_token
    /\ main_loop_pc' = "stopped"
    /\ UNCHANGED << connection_limit, cancellation_token, task_tracker, run_pc,
                    incoming_conn, open_connections, conn >>
    /\ UNCHANGED pvars
    /\ UNCHANGED xvars

----------------------------------------------------------------------------
\* App::run and App::handle_signal.  run has spawned main_loop; it awaits
\* handle_signal, closes the tracker and waits for it.

\* signal::ctrl_c() returned Ok: cancel the token.
Interrupt ==
    /\ run_pc = "handle_signal"
    /\ cancellation_token' = TRUE
    /\ run_pc' = "close"
    /\ UNCHANGED << connection_limit, task_tracker, main_loop_pc, incoming_conn,
                    open_connections, conn >>
    /\ UNCHANGED pvars
    /\ UNCHANGED xvars

\* signal::ctrl_c() returned Err: handle_signal logs and returns.
InterruptUnavailable ==
    /\ run_pc = "handle_signal"
    /\ run_pc' = "close"
    /\ UNCHANGED << connection_limit, cancellation_token, task_tracker,
                    main_loop_pc, incoming_conn, open_connections, conn >>
    /\ UNCHANGED pvars
    /\ UNCHANGED xvars

\* self.task_tracker.close()
TrackerClose ==
    /\ run_pc = "close"
    /\ task_tracker' = [task_tracker EXCEPT !.closed = TRUE]
    /\ run_pc' = "wait"
    /\ UNCHANGED << connection_limit, cancellation_token, main_loop_pc,
                    incoming_conn, open_connections, conn >>
    /\ UNCHANGED pvars
    /\ UNCHANGED xvars

\* self.task_tracker.wait().await completes when the tracker is closed and
\* empty; run returns Ok.
TrackerWait ==
    /\ run_pc = "wait"
    /\ task_tracker.closed
    /\ task_tracker.tasks = {}
    /\ run_pc' = "returned"
    /\ UNCHANGED << connection_limit, cancellation_token, task_tracker,
                    main_loop_pc, incoming_conn, open_connections, conn >>
    /\ UNCHANGED pvars
    /\ UNCHANGED xvars

----------------------------------------------------------------------------
\* App::run from its first line, and the exit code main makes of its value.

\* run: `let endpoint = self.create_endpoint()?`, endpoint.local_addr()?,
\* then tokio::spawn(self.main_loop(endpoint)).  An Err returns from run
\* before main_loop is spawned.
RunCreateEndpoint ==
    /\ run_pc = "create_endpoint"
    /\ IF CreateEndpoint(options) = "Ok" /\ options.local_addr_ok
       THEN /\ run_pc' = "handle_signal"
            /\ main_loop_pc' = "select"
       ELSE /\ run_pc' = "failed"
            /\ UNCHANGED main_loop_pc
    /\ UNCHANGED << connection_limit, cancellation_token, task_tracker,
                    incoming_conn, open_connections, conn >>
    /\ UNCHANGED << pvars, xvars >>

\* The value run returned, or "running".
RunResult ==
    IF run_pc = "returned" THEN "Ok"
    ELSE IF run_pc = "failed" THEN "Err"
    ELSE "running"

\* main: `let code = { if let Err(e) = run(..) { 1 } else { 0 } }`.
ExitCode(result) == IF result = "Err" THEN 1 ELSE 0

\* run is called on a new App, with no peer connecting.
StartupInit ==
    /\ connection_limit = 1
    /\ cancellation_token = FALSE
    /\ task_tracker = [closed |-> FALSE, tasks |-> {}]
    /\ run_pc = "create_endpoint"
    /\ main_loop_pc = "not_spawned"
    /\ incoming_conn = NoConn
    /\ open_connections = {}
    /\ conn = [c \in Conns |-> NewConn]
    /\ options \in StartupOptions
    /\ PlaybackIdle
    /\ ConfigIdle
    /\ SourceIdle
    /\ ManagerIdle

StartupNext ==
    \/ RunCreateEndpoint
    \/ Interrupt
    \/ InterruptUnavailable
    \/ TrackerClose
    \/ TrackerWait
    \/ SelectCancelled

StartupSpec == StartupInit /\ [][StartupNext]_vars

----------------------------------------------------------------------------
\* The connection handlers.  h is "app" for app.rs handle_connection and
\* "vc" for vc::handle_connection with auth_user_for_session.

ReturnAbortsAll(c, result, via, close) ==
    /\ conn' = [conn EXCEPT ![c].st = "done", ![c].result = result,
                            ![c].via = via, ![c].close = close,
                            ![c].request = NoRequest]
    /\ task_tracker' = [task_tracker EXCEPT !.tasks = {}]

\* The handler returns (or its task unwinds): the tracked task is finished
\* and the Connection and the request buffer are dropped.  via names the
\* statement the handler left through.
Return(c, result, via, close) ==
    /\ conn' = [conn EXCEPT ![c].st = "done", ![c].result = result,
                            ![c].via = via, ![c].close = close,
                            ![c].request = NoRequest]
    /\ task_tracker' = [task_tracker EXCEPT !.tasks = @ \ {c}]

\* First poll of the spawned task: `conn.await` accepts the Incoming, which
\* makes the endpoint hold (and count) the connection, and starts the
\* handshake.
TaskStart(c) ==
    /\ conn[c].st = "spawned"
    /\ conn' = [conn EXCEPT ![c].st = "connecting"]
    /\ open_connections' = open_connections \cup {c}
    /\ UNCHANGED << connection_limit, cancellation_token, task_tracker, run_pc,
                    main_loop_pc, incoming_conn >>
    /\ UNCHANGED pvars
    /\ UNCHANGED xvars

\* `conn.await` is Ok: the handshake completed.
ConnectingOk(c) ==
    /\ conn[c].st = "connecting"
    /\ conn' = [conn EXCEPT ![c].st = "accept_bi"]
    /\ UNCHANGED << connection_limit, cancellation_token, task_tracker, run_pc,
                    main_loop_pc, incoming_conn, open_connections >>
    /\ UNCHANGED pvars
    /\ UNCHANGED xvars

\* `conn.await?` is Err: the handler returns the connection error.
ConnectingErr(c) ==
    /\ conn[c].st = "connecting"
    /\ Return(c, "ConnectionError", "connecting", NoClose)
    /\ UNCHANGED << connection_limit, cancellation_token, run_pc, main_loop_pc,
                    incoming_conn, open_connections >>
    /\ UNCHANGED pvars
    /\ UNCHANGED xvars

\* connection.accept_bi() is Ok: the peer opened the control stream and is
\* sending req on it.
AcceptBiOk(c, req) ==
    /\ conn[c].st = "accept_bi"
    /\ conn' = [conn EXCEPT ![c].st = "read_to_end", ![c].request = req]
    /\ UNCHANGED << connection_limit, cancellation_token, task_tracker, run_pc,
                    main_loop_pc, incoming_conn, open_connections >>
    /\ UNCHANGED pvars
    /\ UNCHANGED xvars

\* connection.accept_bi() is Err (the connection was closed or timed out
\* before a stream was offered).
\*   app: `?` returns the error.
\*   vc:  NoAuthRequestReceived; the handler closes the connection with the
\*        error's text and returns the error.
AcceptBiErr(h, c) ==
    /\ conn[c].st = "accept_bi"
    /\ IF h = "vc"
       THEN Return(c, "NoAuthRequestReceived", "accept_bi",
                   AuthErrorClose("NoAuthRequestReceived"))
       ELSE Return(c, "ConnectionError", "accept_bi", NoClose)
    /\ UNCHANGED << connection_limit, cancellation_token, run_pc, main_loop_pc,
                    incoming_conn, open_connections >>
    /\ UNCHANGED pvars
    /\ UNCHANGED xvars

\* The response written on the control stream: send.write_all(b"OK").
OkResponseTwice == << "O", "K", "O", "K" >>

OkResponse == << "O", "K" >>

ReadLimit(h) == IF h = "vc" THEN AuthReadLimit ELSE LegacyReadLimit

\* app.rs: `let valid = true`; auth.rs: the request must deserialize.
Valid(h, req) == IF h = "vc" THEN FromSlice(req) ELSE TRUE

\* connection.close(0u32.into(), b"auth failed") of app.rs.
AuthFailedClose == Close(0, "auth failed")

\* recv.read_to_end(limit) completes: the peer finished the stream, or sent
\* more than the limit.  Then the request is checked (vc: deserialized;
\* app: `valid = true`), "OK" is written, the send side is finished, and the
\* handler enters its select.
ReadToEndDone(h, c) ==
    /\ conn[c].st = "read_to_end"
    /\ LET req == conn[c].request IN
       IF ReadToEnd(req, ReadLimit(h)) = "TooLong"
       THEN IF h = "vc"
            THEN Return(c, "InvalidAuthRequestReceived", "read_to_end",
                        AuthErrorClose("InvalidAuthRequestReceived"))
            ELSE Return(c, "ReadToEndError", "read_to_end", NoClose)
       ELSE IF ~Valid(h, req)
       THEN IF h = "vc"
            THEN Return(c, "InvalidAuthRequestReceived", "from_slice",
                        AuthErrorClose("InvalidAuthRequestReceived"))
            ELSE Return(c, "auth failed", "valid", AuthFailedClose)
       ELSE /\ conn' = [conn EXCEPT ![c].st = "active",
                                    ![c].request = NoRequest,
                                    ![c].ctrl = conn[c].ctrl \o OkResponse,
                                    ![c].finished = TRUE]
            /\ UNCHANGED task_tracker
    /\ UNCHANGED << connection_limit, cancellation_token, run_pc, main_loop_pc,
                    incoming_conn, open_connections >>
    /\ UNCHANGED pvars
    /\ UNCHANGED xvars

\* send.write_all(b"OK").await.unwrap() panics: the peer stopped the stream
\* or the connection was lost.  The task unwinds.
WriteAllPanic(h, c) ==
    /\ conn[c].st = "read_to_end"
    /\ ReadToEnd(conn[c].request, ReadLimit(h)) = "Ok"
    /\ Valid(h, conn[c].request)
    /\ Return(c, "panic", "write_all", NoClose)
    /\ UNCHANGED << connection_limit, cancellation_token, run_pc, main_loop_pc,
                    incoming_conn, open_connections >>
    /\ UNCHANGED pvars
    /\ UNCHANGED xvars

\* send.finish().unwrap() panics after "OK" was written: the peer stopped the
\* stream in between.
FinishPanic(h, c) ==
    /\ conn[c].st = "read_to_end"
    /\ ReadToEnd(conn[c].request, ReadLimit(h)) = "Ok"
    /\ Valid(h, conn[c].request)
    /\ conn' = [conn EXCEPT ![c].st = "done", ![c].result = "panic",
                            ![c].via = "finish", ![c].request = NoRequest,
                            ![c].ctrl = conn[c].ctrl \o OkResponse]
    /\ task_tracker' = [task_tracker EXCEPT !.tasks = @ \ {c}]
    /\ UNCHANGED << connection_limit, cancellation_token, run_pc, main_loop_pc,
                    incoming_conn, open_connections >>
    /\ UNCHANGED pvars
    /\ UNCHANGED xvars

\* recv.read_to_end(limit) is Err(Read): the stream was reset or the
\* connection lost before the end of the stream.
ReadToEndErr(h, c) ==
    /\ conn[c].st = "read_to_end"
    /\ IF h = "vc"
       THEN Return(c, "InvalidAuthRequestReceived", "read_error",
                   AuthErrorClose("InvalidAuthRequestReceived"))
       ELSE Return(c, "ReadToEndError", "read_error", NoClose)
    /\ UNCHANGED << connection_limit, cancellation_token, run_pc, main_loop_pc,
                    incoming_conn, open_connections >>
    /\ UNCHANGED pvars
    /\ UNCHANGED xvars

----------------------------------------------------------------------------
\* The handler's select over playback_loop(&mut connection) and
\* app.cancellation_token.cancelled().  The select discards playback_loop's
\* value (`_ = playback_loop(..) => Ok(())`).

DatagramKinds == {"valid", "malformed", "undecodable"}

\* playback_loop: read_datagram() is Ok.  A valid packet is parsed, decoded
\* and written to the recorder; a parse or decode error ends playback_loop
\* with `?`, and the handler returns Ok.
PlaybackDatagram(c, kind) ==
    /\ conn[c].st = "active"
    /\ IF kind = "valid"
       THEN /\ conn[c].dgrams < MaxDgrams
            /\ conn' = [conn EXCEPT ![c].dgrams = @ + 1]
            /\ UNCHANGED task_tracker
       ELSE Return(c, "Ok", kind, NoClose)
    /\ UNCHANGED << connection_limit, cancellation_token, run_pc, main_loop_pc,
                    incoming_conn, open_connections >>
    /\ UNCHANGED pvars
    /\ UNCHANGED xvars

\* playback_loop: read_datagram() is Err(ApplicationClosed): the peer closed
\* the connection; playback_loop returns Ok.
PlaybackClosed(c) ==
    /\ conn[c].st = "active"
    /\ Return(c, "Ok", "playback_closed", NoClose)
    /\ UNCHANGED << connection_limit, cancellation_token, run_pc, main_loop_pc,
                    incoming_conn, open_connections >>
    /\ UNCHANGED pvars
    /\ UNCHANGED xvars

\* playback_loop ends with another error: read_datagram() failed with a
\* transport error, or the decoder or the recorder could not be created.
PlaybackErr(c) ==
    /\ conn[c].st = "active"
    /\ Return(c, "Ok", "read_datagram", NoClose)
    /\ UNCHANGED << connection_limit, cancellation_token, run_pc, main_loop_pc,
                    incoming_conn, open_connections >>
    /\ UNCHANGED pvars
    /\ UNCHANGED xvars

\* vc::playback_loop: interval.tick() completes and the silence for the time
\* since last_write_time is written to the recorder.
PlaybackTick(c) ==
    /\ conn[c].st = "active"
    /\ conn[c].silence < MaxTicks
    /\ conn' = [conn EXCEPT ![c].silence = @ + 1]
    /\ UNCHANGED << connection_limit, cancellation_token, task_tracker, run_pc,
                    main_loop_pc, incoming_conn, open_connections >>
    /\ UNCHANGED pvars
    /\ UNCHANGED xvars

\* The media the server has sent to the peer of c.  playback_loop only reads
\* datagrams and writes them to its own recorder; no handler calls
\* send_datagram or opens a stream, and GroupVoiceSession is a struct that
\* nothing constructs: the control response is all a peer ever receives.
Relayed(c) == << >>

\* The cancelled() branch of the handler's select is ready.
CancelledNever(c) == FALSE

ShutdownKeepsPlaying(c) ==
    /\ conn[c].st = "active"
    /\ cancellation_token
    /\ conn[c].close # ShutdownClose
    /\ conn' = [conn EXCEPT ![c].close = ShutdownClose, ![c].via = "cancelled"]
    /\ UNCHANGED << connection_limit, cancellation_token, task_tracker, run_pc,
                    main_loop_pc, incoming_conn, open_connections >>
    /\ UNCHANGED pvars
    /\ UNCHANGED xvars

CancelledReady(c) == cancellation_token

\* The cancelled() branch: close the connection and return Ok.
ShutdownConnection(c) ==
    /\ conn[c].st = "active"
    /\ CancelledReady(c)
    /\ Return(c, "Ok", "cancelled", ShutdownClose)
    /\ UNCHANGED << connection_limit, cancellation_token, run_pc, main_loop_pc,
                    incoming_conn, open_connections >>
    /\ UNCHANGED pvars
    /\ UNCHANGED xvars

\* The endpoint forgets a connection once it is closed and has drained.  The
\* handler's value was logged and dropped with the task, the Connection was
\* dropped at the handler's return: the server holds nothing of c any more.
Drained(c) ==
    /\ conn[c].st = "done"
    /\ c \in open_connections
    /\ open_connections' = open_connections \ {c}
    /\ conn' = [conn EXCEPT ![c] = [NewConn EXCEPT !.st = "drained"]]
    /\ UNCHANGED << connection_limit, cancellation_token, task_tracker, run_pc,
                    main_loop_pc, incoming_conn >>
    /\ UNCHANGED pvars
    /\ UNCHANGED xvars

----------------------------------------------------------------------------
\* vc::playback_loop in detail: one call, for the Active session
\* PlaybackConn, from its entry to its return.
\*
\* A datagram is what RtpPacket::parse and decoder.decode make of it: kind
\* "valid" parses and decodes to `samples` PCM samples, "malformed" does not
\* parse, "undecodable" parses and does not decode.  The PCM of a packet is
\* identified by the packet's sequence number: two frames are the same PCM
\* only if they come from the same packet.
PlaybackConn == 1

Rtp(sequence_number) ==
    [kind |-> "valid", sequence_number |-> sequence_number, ssrc |-> 10,
     samples |-> FrameSamples]

Malformed == [kind |-> "malformed", sequence_number |-> 0, ssrc |-> 0, samples |-> 0]

Undecodable(sequence_number) ==
    [kind |-> "undecodable", sequence_number |-> sequence_number, ssrc |-> 10,
     samples |-> 0]

\* Arrival orders at read_datagram().
HappyPath == << Rtp(0), Rtp(1), Rtp(2), Rtp(3), Rtp(4) >>
Gap == << Rtp(0), Rtp(1), Rtp(3), Rtp(4) >>
Late == << Rtp(0), Rtp(1), Rtp(2), Rtp(3), Rtp(1) >>
InOrder == << Rtp(0), Rtp(1), Rtp(2), Rtp(3) >>
Reordered == << Rtp(0), Rtp(2), Rtp(1), Rtp(3) >>
Wrap == << Rtp(65534), Rtp(65535), Rtp(0), Rtp(1) >>
BadPacket == << Rtp(0), Malformed, Rtp(1) >>
BadPayload == << Rtp(0), Undecodable(1), Rtp(2) >>

Scenarios ==
    { HappyPath, Gap, Late, InOrder, Reordered, Wrap, BadPacket, BadPayload }

\* rvoip_rtp_core::RtpPacket::parse(&bytes) is Ok.
RtpParse(dgram) == dgram.kind # "malformed"

\* decoder.decode(&rtp_packet.payload, &mut pcm_buf, false): the number of
\* samples decoded into pcm_buf, or -1 for Err.
Decode(dgram) == IF dgram.kind = "valid" THEN dgram.samples ELSE -1

\* The recorder's content is a sequence of runs [src, len]: len samples that
\* are the PCM of packet src, or len zero samples written by the tick
\* (src = Silence).
Silence == -1

\* wav_writer.write_sample, n times.
WriteSamples(w, src, n) ==
    IF n <= 0 THEN w
    ELSE IF src = Silence /\ Len(w) > 0 /\ w[Len(w)].src = Silence
    THEN [w EXCEPT ![Len(w)].len = @ + n]
    ELSE Append(w, [src |-> src, len |-> n])

\* The tick's loop bound:
\* silence_duration.as_millis() * (SAMPLE_RATE as u128 / 1000).
SilenceSamples(elapsed) == elapsed * (SampleRate \div 1000)

\* An Active session whose handler has just entered its select: the state
\* vc::handle_connection is in when it calls playback_loop.
PlaybackInit ==
    /\ connection_limit = 1
    /\ cancellation_token = FALSE
    /\ task_tracker = [closed |-> FALSE, tasks |-> {PlaybackConn}]
    /\ run_pc = "handle_signal"
    /\ main_loop_pc = "select"
    /\ incoming_conn = NoConn
    /\ open_connections = {PlaybackConn}
    /\ conn = [c \in Conns |->
                 IF c = PlaybackConn
                 THEN [NewConn EXCEPT !.st = "active", !.validated = TRUE,
                                      !.ctrl = OkResponse, !.finished = TRUE]
                 ELSE NewConn]
    /\ scenario \in Scenarios
    /\ arrivals = scenario
    /\ wav_writer = << >>
    /\ last_write_time = 0
    /\ now = 0
    /\ interval = 0
    /\ playback_pc = "start"
    /\ playback_result = "none"
    /\ OthersIdle

\* Lines 35-48: the decoder and the recorder are created, the interval is
\* created (its first tick completes immediately), last_write_time is now.
PlaybackStart ==
    /\ playback_pc = "start"
    /\ playback_pc' = "loop"
    /\ interval' = now
    /\ last_write_time' = now
    /\ UNCHANGED << server_vars, scenario, arrivals, wav_writer, now,
                    playback_result >>
    /\ UNCHANGED xvars

\* opus::Decoder::new or hound::WavWriter::create is Err: `?` returns it.
PlaybackStartErr ==
    /\ playback_pc = "start"
    /\ playback_pc' = "returned"
    /\ playback_result' = "Err"
    /\ UNCHANGED << server_vars, scenario, arrivals, wav_writer,
                    last_write_time, now, interval >>
    /\ UNCHANGED xvars

\* Wall time passes while the loop waits in its select.
Elapse ==
    /\ playback_pc = "loop"
    /\ now + MsStep <= MaxNow
    /\ now' = now + MsStep
    /\ UNCHANGED << server_vars, scenario, arrivals, wav_writer,
                    last_write_time, interval, playback_pc, playback_result >>
    /\ UNCHANGED xvars

\* The read_datagram() branch with Ok(dgram): parse, set last_write_time,
\* decode, write the decoded samples.  A parse or decode error returns with
\* `?`.
ReadDatagram ==
    /\ playback_pc = "loop"
    /\ arrivals # << >>
    /\ LET dgram == Head(arrivals)
           len == Decode(dgram)
       IN  /\ arrivals' = Tail(arrivals)
           /\ IF ~RtpParse(dgram)
              THEN /\ playback_pc' = "returned"
                   /\ playback_result' = "Err"
                   /\ UNCHANGED << wav_writer, last_write_time >>
              ELSE IF len < 0
              THEN /\ playback_pc' = "returned"
                   /\ playback_result' = "Err"
                   /\ last_write_time' = now
                   /\ UNCHANGED wav_writer
              ELSE /\ wav_writer' = WriteSamples(wav_writer, dgram.sequence_number, len)
                   /\ last_write_time' = now
                   /\ UNCHANGED << playback_pc, playback_result >>
    /\ UNCHANGED << server_vars, scenario, now, interval >>
    /\ UNCHANGED xvars

\* The read_datagram() branch with Err: ApplicationClosed returns Ok, any
\* other connection error is returned.
ReadDatagramErr(application_closed) ==
    /\ playback_pc = "loop"
    /\ playback_pc' = "returned"
    /\ playback_result' = IF application_closed THEN "Ok" ELSE "Err"
    /\ UNCHANGED << server_vars, scenario, arrivals, wav_writer,
                    last_write_time, now, interval >>
    /\ UNCHANGED xvars

\* The interval.tick() branch: the deadline has passed.  Zero samples are
\* written for the time since last_write_time, then last_write_time is now.
\* The interval's next deadline is one period after the last one.
IntervalTick ==
    /\ playback_pc = "loop"
    /\ now >= interval
    /\ wav_writer' = WriteSamples(wav_writer, Silence,
                                  SilenceSamples(now - last_write_time))
    /\ last_write_time' = now
    /\ interval' = interval + TickMillis
    /\ UNCHANGED << server_vars, scenario, arrivals, now, playback_pc,
                    playback_result >>
    /\ UNCHANGED xvars

PlaybackNext ==
    \/ PlaybackStart
    \/ PlaybackStartErr
    \/ Elapse
    \/ ReadDatagram
    \/ \E application_closed \in BOOLEAN : ReadDatagramErr(application_closed)
    \/ IntervalTick

PlaybackSpec == PlaybackInit /\ [][PlaybackNext]_vars

----------------------------------------------------------------------------
Supervisor ==
    \/ Interrupt
    \/ InterruptUnavailable
    \/ TrackerClose
    \/ TrackerWait

AcceptLoop ==
    \/ \E c \in Conns : \E v \in BOOLEAN : Arrive(c, v)
    \/ \E c \in Conns : SelectAccept(c)
    \/ Admit
    \/ SelectCancelled

Handler(h) ==
    \E c \in Conns :
        \/ TaskStart(c)
        \/ ConnectingOk(c)
        \/ ConnectingErr(c)
        \/ \E req \in Requests : AcceptBiOk(c, req)
        \/ AcceptBiErr(h, c)
        \/ ReadToEndDone(h, c)
        \/ WriteAllPanic(h, c)
        \/ FinishPanic(h, c)
        \/ ReadToEndErr(h, c)
        \/ \E kind \in DatagramKinds : PlaybackDatagram(c, kind)
        \/ PlaybackClosed(c)
        \/ PlaybackErr(c)
        \/ ShutdownConnection(c)
        \/ Drained(c)

\* The server as app.rs wires it: main_loop spawns app.rs handle_connection.
Next == Supervisor \/ AcceptLoop \/ Handler("app")

Spec == Init /\ [][Next]_vars

\* The same supervisor and accept loop with vc::handle_connection.
VcNext ==
    \/ Supervisor
    \/ AcceptLoop
    \/ Handler("vc")
    \/ \E c \in Conns : PlaybackTick(c)

VcSpec == Init /\ [][VcNext]_vars

\* Fair scheduling of the server's own tasks: the runtime eventually runs a
\* task that can step (the supervisor, the accept loop once a branch of its
\* select is ready, a spawned handler's first poll, a handler whose
\* cancelled() branch is ready, the endpoint's draining).  Nothing is assumed
\* of the peers: a step that completes an await on the peer (handshake,
\* accept_bi, read_to_end, read_datagram) may never come.  The transport's
\* idle timeout ends such an await only when the peer is silent; a peer that
\* keeps its connection alive and never opens or finishes the control stream
\* leaves the await pending for ever.
Fairness ==
    /\ WF_vars(TrackerClose)
    /\ WF_vars(TrackerWait)
    /\ WF_vars(Admit)
    /\ WF_vars(SelectCancelled)
    /\ \A c \in Conns : WF_vars(TaskStart(c))
    /\ \A c \in Conns : WF_vars(ShutdownConnection(c))
    /\ \A c \in Conns : WF_vars(Drained(c))

FairSpec == Spec /\ Fairness

\* The vc handler under the same fair scheduling.
FairVcSpec == VcSpec /\ Fairness

\* The peer is the repository's client (AudioManager::
\* authenticate_audio_connection): open_bi(), write_all of the serialized
\* ArsAuthRequest::new(), finish().  The server's accept_bi() completes with
\* that request on the stream.
ClientAuthenticate(c) == AcceptBiOk(c, ToVec(ArsAuthRequestNew))

\* vc::handle_connection serving clients only.  The connection may still be
\* lost at every await.
ClientHandler ==
    \E c \in Conns :
        \/ TaskStart(c)
        \/ ConnectingOk(c)
        \/ ConnectingErr(c)
        \/ ClientAuthenticate(c)
        \/ AcceptBiErr("vc", c)
        \/ ReadToEndDone("vc", c)
        \/ WriteAllPanic("vc", c)
        \/ FinishPanic("vc", c)
        \/ ReadToEndErr("vc", c)
        \/ \E kind \in DatagramKinds : PlaybackDatagram(c, kind)
        \/ PlaybackClosed(c)
        \/ PlaybackErr(c)
        \/ ShutdownConnection(c)
        \/ Drained(c)

ClientNext == Supervisor \/ AcceptLoop \/ ClientHandler

ClientSpec == Init /\ [][ClientNext]_vars

----------------------------------------------------------------------------
\* Properties.

\* The handler of c has been spawned (c was admitted).
Admitted(c) ==
    conn[c].st \in {"spawned", "connecting", "accept_bi", "read_to_end",
                    "active", "done", "drained"}

\* c is an established connection whose handler is running.
Established(c) == conn[c].st \in {"accept_bi", "read_to_end", "active"}

\* C1: with connection_limit = K, at most K admitted connections are open at
\* once, in every interleaving of the accept loop with the spawned tasks.
AdmissionCap ==
    Cardinality({c \in Conns : Established(c)}) <= connection_limit

\* C2: the accept loop refuses when the open count is >= connection_limit
\* (validated or not), else retries an unvalidated address, else accepts and
\* spawns exactly one tracked task; a refused or retried connection spawns no
\* task and is never counted, and the loop goes back to its select.
AdmissionPolicy ==
    /\ [](\A c \in Conns :
            conn[c].st \in {"refused", "retried"} =>
                c \notin open_connections /\ c \notin task_tracker.tasks)
    /\ [][ main_loop_pc = "accepted" /\ main_loop_pc' # main_loop_pc =>
             LET c == incoming_conn
                 n == Cardinality(open_connections)
             IN  /\ n >= connection_limit => conn'[c].st = "refused"
                 /\ n < connection_limit /\ ~conn[c].validated
                        => conn'[c].st = "retried"
                 /\ n < connection_limit /\ conn[c].validated
                        => /\ conn'[c].st = "spawned"
                           /\ c \notin task_tracker.tasks
                           /\ task_tracker'.tasks = task_tracker.tasks \cup {c}
                 /\ conn'[c].st \in {"refused", "retried"}
                        => /\ task_tracker' = task_tracker
                           /\ open_connections' = open_connections
                 /\ \A d \in Conns \ {c} : conn'[d] = conn[d]
                 /\ main_loop_pc' = "select" ]_vars

\* C2 witness: an unvalidated connection was refused over the limit while an
\* admitted one is running, and the loop is back at its select.
AdmissionPolicyWitness ==
    /\ main_loop_pc = "select"
    /\ \E c, d \in Conns :
        /\ conn[c].st = "refused" /\ ~conn[c].validated
        /\ conn[d].st = "active"

\* C3 as stated: every session that is Active when the token is cancelled
\* closes its connection with code 1, "server shutdown", and returns Ok.
ActiveSessionsCloseWithShutdown ==
    [][ \A c \in Conns :
          cancellation_token /\ conn[c].st = "active" /\ conn'[c].st = "done"
          => /\ conn'[c].close = [code |-> 1, reason |-> "server shutdown"]
             /\ conn'[c].result = "Ok" ]_vars

\* C3 amended: a session that is Active under a cancelled token returns Ok,
\* and it closes its connection with code 1, "server shutdown", unless its
\* playback loop ended first (peer close, datagram or transport error), in
\* which case the handler makes no close call.
ActiveSessionsShutdownOrPlaybackEnds ==
    [][ \A c \in Conns :
          cancellation_token /\ conn[c].st = "active" /\ conn'[c].st = "done"
          => /\ conn'[c].result = "Ok"
             /\ \/ /\ conn'[c].via = "cancelled"
                   /\ conn'[c].close = [code |-> 1, reason |-> "server shutdown"]
                \/ /\ conn'[c].via \in {"playback_closed", "read_datagram",
                                        "malformed", "undecodable"}
                   /\ conn'[c].close = [code |-> -1, reason |-> ""] ]_vars

\* C3 witness: a session has taken the cancelled() branch.
ShutdownWitness ==
    \E c \in Conns :
        /\ conn[c].st = "done" /\ conn[c].via = "cancelled"
        /\ conn[c].close.code = 1 /\ conn[c].result = "Ok"

\* C4: after the cancel signal every Active session eventually is Closed
\* (its task has finished), under fair scheduling of the session tasks.
CancellationLiveness ==
    \A c \in Conns :
        (cancellation_token /\ conn[c].st = "active")
            ~> (conn[c].st \in {"done", "drained"} /\ c \notin task_tracker.tasks)

\* C4 witness: all sessions were Active at the cancellation and have closed
\* through it.
CancellationLivenessWitness ==
    /\ cancellation_token
    /\ \A c \in Conns : conn[c].st = "done" /\ conn[c].via = "cancelled"

\* C5: App::run returns only after the task of every admitted connection has
\* finished: no task is spawned or running once run has returned.
RunReturnsAfterAllTasks ==
    run_pc = "returned" => task_tracker.tasks = {}

\* C6: after the interrupt is delivered App::run eventually returns, whatever
\* state the admitted sessions are in.
RunEventuallyReturns ==
    cancellation_token ~> (run_pc = "returned")

\* C7: once the token is cancelled the accept loop takes no connection from
\* the endpoint and spawns no connection task.
NoAdmissionAfterCancel ==
    [][ cancellation_token =>
          \A c \in Conns : Admitted(c)' => Admitted(c) ]_vars

AuthErrors == {"NoAuthRequestReceived", "InvalidAuthRequestReceived"}

AuthEnds(c) ==
    /\ conn[c].st \in {"accept_bi", "read_to_end"}
    /\ conn'[c].st \in {"active", "done"}

OkWrittenOnceBeforeDatagrams ==
    /\ [](\A c \in Conns :
            /\ conn[c].st = "active" \/ conn[c].result = "Ok" \/ conn[c].dgrams > 0
                  => conn[c].ctrl = << "O", "K" >> /\ conn[c].finished
            /\ conn[c].result \in AuthErrors
                  => conn[c].ctrl = << >> /\ ~conn[c].finished)
    /\ [][ \A c \in Conns :
             /\ conn[c].ctrl # << >> /\ conn'[c].st # "drained"
                  => conn'[c].ctrl = conn[c].ctrl
             /\ conn[c].finished /\ conn'[c].st # "drained"
                  => conn'[c].finished
             /\ conn[c].st = "drained" => conn'[c] = conn[c]
             /\ conn'[c].dgrams # conn[c].dgrams
                  => conn[c].ctrl = << "O", "K" >> /\ conn[c].finished ]_vars

\* C10 witness: an authenticated session has read a datagram after "OK".
OkWrittenWitness ==
    \E c \in Conns :
        /\ conn[c].st = "active"
        /\ conn[c].dgrams > 0
        /\ conn[c].ctrl = << "O", "K" >>

\* A session in PendingAuth: the handshake is done and
\* auth_user_for_session awaits accept_bi() or read_to_end(1024).
PendingAuth(c) == conn[c].st \in {"accept_bi", "read_to_end"}

\* C11: every session in PendingAuth leaves it: a peer that opens no
\* control stream, or never finishes the one it opened, is ended (with
\* NoAuthRequestReceived) instead of being waited for indefinitely.
AuthTimeout ==
    \A c \in Conns : PendingAuth(c) ~> ~PendingAuth(c)

\* C12: the request the client sends, the JSON of ArsAuthRequest::new(), is
\* at most 1024 bytes and the server's authenticator decodes it: no client
\* session is rejected for the length or the content of its request, and
\* when the request has been read to its end and the response written, the
\* session is Active and the client reads exactly "OK" from a finished
\* stream, within its own read limit.
ClientAuthRoundTrip ==
    /\ [](/\ ToVec(ArsAuthRequestNew).len <= 1024
          /\ ReadToEnd(ToVec(ArsAuthRequestNew), AuthReadLimit) = "Ok"
          /\ FromSlice(ToVec(ArsAuthRequestNew))
          /\ \A c \in Conns :
                /\ conn[c].via \notin {"read_to_end", "from_slice"}
                /\ conn[c].st = "read_to_end"
                      => conn[c].request = ToVec(ArsAuthRequestNew))
    /\ [][ \A c \in Conns :
             /\ conn[c].st = "read_to_end"
             /\ conn'[c].st # "read_to_end"
             /\ conn'[c].via \notin {"read_error", "write_all", "finish"}
             => /\ conn'[c].st = "active"
                /\ conn'[c].ctrl = << "O", "K" >>
                /\ conn'[c].finished
                /\ Len(conn'[c].ctrl) <= ClientReadLimit ]_vars

\* C12 witness: a client's session is Active with "OK" on its control
\* stream.
ClientAuthWitness ==
    \E c \in Conns :
        /\ conn[c].st = "active"
        /\ conn[c].ctrl = << "O", "K" >>
        /\ conn[c].finished

----------------------------------------------------------------------------
\* Properties of the recorder output (PlaybackSpec).

\* The number of samples written to the recorder.
RECURSIVE Samples(_)
Samples(w) == IF w = << >> THEN 0 ELSE Head(w).len + Samples(Tail(w))

\* The packets whose PCM is in the recorder, in the order it was written.
RECURSIVE PcmSources(_)
PcmSources(w) ==
    IF w = << >> THEN << >>
    ELSE IF Head(w).src = Silence THEN PcmSources(Tail(w))
    ELSE << Head(w).src >> \o PcmSources(Tail(w))

SequenceNumbers(packets) ==
    [i \in 1..Len(packets) |-> packets[i].sequence_number]

\* Every sample of w at an index in [lo, hi) is a zero the recorder was
\* given as silence.
ZeroRange(w, lo, hi) ==
    \A k \in 1..Len(w) :
        LET start == Samples(SubSeq(w, 1, k - 1)) IN
        (start < hi /\ start + w[k].len > lo) => w[k].src = Silence

\* Every datagram of the scenario has been read and the loop has not run a
\* tick that wrote silence since the last of them was written.
LastDatagramWritten ==
    /\ playback_pc = "loop"
    /\ arrivals = << >>
    /\ Len(wav_writer) > 0
    /\ wav_writer[Len(wav_writer)].src # Silence

\* C13: for the 5 datagrams with sequences 0..4, each decoding to 960
\* samples, the recorder holds exactly 4800 samples when the fifth has been
\* written, however the arrivals interleave with the 20 ms ticks.
HappyPathExactly4800 ==
    (scenario = HappyPath /\ LastDatagramWritten)
        => Samples(wav_writer) = 5 * FrameSamples

\* C14: for arrivals 0,1,3,4 the recorder holds 4800 samples when the last
\* has been written, and samples [1920..2880), the frame of the missing
\* sequence 2, are silence.
GapFilledWithSilence ==
    (scenario = Gap /\ LastDatagramWritten)
        => /\ Samples(wav_writer) = 5 * FrameSamples
           /\ ZeroRange(wav_writer, 2 * FrameSamples, 3 * FrameSamples)

\* C15: for arrivals 0,1,2,3 followed by a late 1 the late packet adds no
\* samples: the PCM in the recorder is that of 0,1,2,3, once each.
LatePacketDiscarded ==
    (scenario = Late /\ arrivals = << >> /\ playback_pc = "loop")
        => PcmSources(wav_writer) = SequenceNumbers(InOrder)

\* C16: arrivals 0,2,1,3 give the same PCM in the recorder as 0,1,2,3.
ReorderedEqualsInOrder ==
    (scenario = Reordered /\ arrivals = << >> /\ playback_pc = "loop")
        => PcmSources(wav_writer) = SequenceNumbers(InOrder)

\* C17: arrivals 65534, 65535, 0, 1 give four consecutive frames in the
\* recorder, none dropped as late and no silence between them.
WrapFourConsecutiveFrames ==
    (scenario = Wrap /\ LastDatagramWritten)
        => /\ PcmSources(wav_writer) = SequenceNumbers(Wrap)
           /\ \A k \in 2..Len(wav_writer) : wav_writer[k].src # Silence

\* C18: the number of samples in the recorder is always a whole multiple of
\* the frame size, 960, and it never decreases.
ContinuityWholeFrames ==
    /\ [](Samples(wav_writer) % FrameSamples = 0)
    /\ [][Samples(wav_writer') >= Samples(wav_writer)]_vars

\* The silence a tick owes: one frame per whole frame duration elapsed.
SilenceSamplesWholeFrames(elapsed) ==
    (elapsed \div TickMillis) * FrameSamples

\* C19: a tick that fires less than one frame duration (20 ms) after the
\* last write adds no samples; one that fires more than a frame duration
\* after it adds exactly one 960-sample frame of silence per elapsed frame
\* duration.
SilenceTickRule ==
    [][ (playback_pc = "loop" /\ interval' # interval) =>
          LET elapsed == now - last_write_time
              added == Samples(wav_writer') - Samples(wav_writer)
          IN  /\ elapsed < TickMillis => added = 0
              /\ elapsed > TickMillis => added = SilenceSamplesWholeFrames(elapsed)
      ]_vars

\* C20: a datagram that fails to parse, or whose payload fails to decode, is
\* dropped and the session continues: the step that takes it leaves the
\* session Active with its connection open.
BadDatagramDropped ==
    [][ \A c \in Conns :
          (conn[c].st = "active" /\ conn'[c].via \in {"malformed", "undecodable"})
              => (conn'[c].st = "active" /\ c \in open_connections') ]_vars

\* C21: a read_datagram() that fails because the peer application-closed
\* the connection ends the session normally (handler result Ok); one that
\* fails with any other transport error makes the handler return Err, which
\* the spawned task logs as "connection failed".
TransportErrorPropagates ==
    \A c \in Conns :
        /\ conn[c].via = "playback_closed" => conn[c].result = "Ok"
        /\ conn[c].via = "read_datagram" => conn[c].result # "Ok"

\* The handler of c returns, or its task unwinds, for a reason local to the
\* session: anything but the cancelled() branch.
SessionLocalEnd(c) ==
    /\ conn[c].st # "done"
    /\ conn'[c].st = "done"
    /\ conn'[c].via # "cancelled"

\* C22: the end of one session for a session-local reason (auth failure,
\* malformed or undecodable packet, transport error, remote close) leaves
\* every other session's state and recorded datagrams unchanged, keeps every
\* other handler tracked, does not cancel the token, and does not stop or
\* move the accept loop or the supervisor.
SessionIsolation ==
    [][ \A c \in Conns : SessionLocalEnd(c) =>
          /\ \A d \in Conns \ {c} : conn'[d] = conn[d]
          /\ task_tracker'.tasks = task_tracker.tasks \ {c}
          /\ task_tracker'.closed = task_tracker.closed
          /\ cancellation_token' = cancellation_token
          /\ main_loop_pc' = main_loop_pc
          /\ incoming_conn' = incoming_conn
          /\ run_pc' = run_pc
          /\ open_connections' = open_connections ]_vars

\* C22 witness: one session has ended for a session-local reason while
\* another is Active with a datagram recorded, the token is not cancelled
\* and the accept loop is in its select.
SessionIsolationWitness ==
    \E c, d \in Conns :
        /\ c # d
        /\ conn[c].st = "done"
        /\ conn[c].via \in {"accept_bi", "read_to_end", "from_slice",
                            "malformed", "undecodable", "read_datagram",
                            "playback_closed"}
        /\ conn[d].st = "active"
        /\ conn[d].dgrams > 0
        /\ d \in task_tracker.tasks
        /\ ~cancellation_token
        /\ main_loop_pc = "select"

\* C23: with two authenticated sessions, each receives exactly the media
\* the other emitted (as many frames as the server recorded from the other)
\* and none of its own.
BroadcastExclusion ==
    \A c, d \in Conns :
        (c # d /\ conn[c].st = "active" /\ conn[d].st = "active")
            => Len(Relayed(c)) = conn[d].dgrams

----------------------------------------------------------------------------
\* Properties of the configuration loader (ConfigSpec).

\* C24: in the effective configuration every setting has the command
\* line's value if the command line gave one, and otherwise the value of the
\* YAML file that was loaded.
CliOverridesFile ==
    config_result.status = "Ok" =>
        \E p \in Paths :
            /\ opened = {p}
            /\ \A s \in Settings :
                  config_result.config[s] =
                      IF args.config[s] = "cli" THEN "cli" ELSE p

\* C24 witness: a configuration was loaded with a setting from the command
\* line and a setting the command line did not give.
CliOverridesFileWitness ==
    /\ config_result.status = "Ok"
    /\ args.config["connection_limit"] = "cli"
    /\ args.config["log_level"] = None
    /\ config_result.config["connection_limit"] = "cli"
    /\ config_result.config["log_level"] \in Paths

\* C25: when the environment variable is set, the file it names is the only
\* file opened, whatever --config (or the default path) names.
EnvPathOnly ==
    (env_config_path # NoPath /\ config_result.status # "none")
        => opened = {env_config_path}

\* C25 witness: the environment variable's file was loaded while every path
\* the command line can name (the flag's value, the default) is a missing or
\* an invalid file.
EnvPathOnlyWitness ==
    /\ env_config_path = "env.yaml"
    /\ config_result.status = "Ok"
    /\ opened = {"env.yaml"}
    /\ files["cli.yaml"] = "invalid"
    /\ files["config.yaml"] = "missing"

\* C26: from_args returns an error, and no configuration, exactly when the
\* selected file does not exist or does not deserialize; no other file is
\* tried.
LoadFailureIsError ==
    config_result.status # "none" =>
        LET selected == IF env_config_path # NoPath THEN env_config_path
                        ELSE args.config_path
        IN  /\ opened = {selected}
            /\ config_result.status = "Err" <=> files[selected] \in {"missing", "invalid"}
            /\ config_result.status = "Err" => config_result.config = NoConfig
            /\ config_result.status = "Ok" =>
                  \A s \in Settings : config_result.config[s] # None

\* C26 witness: loading failed on an invalid file while a file of lower
\* priority, the default config.yaml, was valid.
LoadFailureWitness ==
    /\ config_result.status = "Err"
    /\ env_config_path = "env.yaml"
    /\ files["env.yaml"] = "invalid"
    /\ files["config.yaml"] = "valid"

----------------------------------------------------------------------------
\* Properties of startup and exit (StartupSpec).

\* C27: when run has returned, the exit code is 0 exactly when the server
\* shut down after an interrupt (the token was cancelled and run returned
\* Ok) and 1 exactly when startup failed (TLS material or bind); a failure
\* to build the endpoint returns from run before main_loop is spawned.
ExitCodeRule ==
    RunResult # "running" =>
        /\ ExitCode(RunResult) = 0 <=> (run_pc = "returned" /\ cancellation_token)
        /\ ExitCode(RunResult) = 1 <=> ~Usable(options)
        /\ ~Usable(options) => main_loop_pc = "not_spawned"

----------------------------------------------------------------------------
\* Properties of the client's audio source (SourceSpec).

\* C28: every packet the source creates carries the current sequence_no
\* and start_time, and creating it advances sequence_no by exactly 1
\* modulo 2^16 (65535 is followed by 0) and start_time by exactly 160
\* modulo 2^32, with the source still running; a new source starts at
\* sequence 0.
SequenceAndTimestampStep ==
    /\ [](packet = NoPacket => sequence_no = 0)
    /\ [][ packet' # packet =>
             /\ packet' = create_rtp_packet(sequence_no, start_time)
             /\ sequence_no' = (sequence_no + 1) % Pow16
             /\ start_time' = WrappingAdd32(start_time, TimestampStep)
             /\ source_pc' # "panicked" ]_vars


\* C29: once a session has taken the cancelled() branch and closed its
\* connection with "server shutdown", nothing more is read for it: its
\* record (datagrams recorded, silence written, result) stays as it is
\* until the endpoint has drained the connection and forgets it.
NoPacketsAfterShutdown ==
    [][ \A c \in Conns : conn[c].close = ShutdownClose =>
          \/ conn'[c] = conn[c]
          \/ conn'[c] = [NewConn EXCEPT !.st = "drained"] ]_vars

\* C29 witness: a session that had recorded a datagram was shut down by the
\* cancelled() branch while the supervisor is still waiting and another
\* step of the server follows.
NoPacketsAfterShutdownWitness ==
    \E c \in Conns :
        /\ conn[c].st = "done"
        /\ conn[c].via = "cancelled"
        /\ conn[c].close = ShutdownClose
        /\ conn[c].dgrams > 0
        /\ c \in open_connections

----------------------------------------------------------------------------
\* Properties of the client's audio manager (ManagerSpec).

\* The task of the session asked for last: the one join_room spawned last.
LatestTask == Cardinality(Spawned)

\* C30: get_active() is true only after a connection has been established
\* and authenticated; while the session asked for last is connecting or
\* authenticating, and after its authentication has failed, get_active() is
\* false.
ActiveOnlyAfterAuth ==
    /\ get_active =>
         \E t \in Tasks : task[t].pc \in {"authenticated", "streaming", "ended"}
                          \/ task[t].via \in {"RTPOpusAudioSource::new",
                                              "send_datagram"}
    /\ LatestTask # NoTask =>
         /\ task[LatestTask].pc \in {"connecting", "authenticating"}
              => ~get_active
         /\ task[LatestTask].via \in {"create_audio_connection",
                                      "authenticate_audio_connection"}
              => ~get_active

----------------------------------------------------------------------------
\* C31: whenever run is waiting on the task tracker (or has returned from
\* the wait), the cancellation token has been cancelled, whichever way
\* handle_signal returned.
CancelledBeforeWait ==
    run_pc \in {"wait", "returned"} => cancellation_token

----------------------------------------------------------------------------
\* C32: at most one streaming task, and at most one connection to the
\* server, is alive at any time.
AtMostOneTask ==
    /\ Cardinality(Alive) <= 1
    /\ Cardinality({ t \in Tasks : task[t].connection = "open" }) <= 1

----------------------------------------------------------------------------
\* C33: once the task of the session asked for last has consumed the EXIT
\* that exit_room sent and has returned, and no task is running,
\* get_active() is false, so that join_room may start a new session.
ExitRoomEndsSession ==
    ( /\ LatestTask # NoTask
      /\ task[LatestTask].pc = "ended"
      /\ Alive = {} )
    => ~get_active

----------------------------------------------------------------------------
\* C34: when a task other than the one join_room spawned last fails, the
\* manager's state (active_session, signal_sender, stream_error, muted),
\* which belongs to the later session, is left as it is.
FailureResetsOwnSessionOnly ==
    [][ \A t \in Tasks :
          ( /\ task[t].pc # "failed"
            /\ task'[t].pc = "failed"
            /\ t # LatestTask )
          => state' = state ]_vars

----------------------------------------------------------------------------
\* Properties of muting (MuteSpec).

\* C35: while a session is running, every set_muted call queues its MUTE or
\* UNMUTE behind the signals already pending (none is lost or reordered),
\* and once the task has consumed all pending signals the audio source is
\* capturing exactly when the muted flag is false.
MuteConsistency ==
    /\ [](\A t \in Tasks :
            (task[t].pc = "streaming" /\ task[t].signals = << >>)
            => (task[t].playing <=> ~state.muted))
    /\ [][ (calls' # calls /\ state.signal_sender # NoTask) =>
             task'[state.signal_sender].signals =
                 Append(task[state.signal_sender].signals,
                        IF state'.muted THEN "MUTE" ELSE "UNMUTE") ]_vars

----------------------------------------------------------------------------
\* C36: a join_room call made while active_session is Some changes nothing:
\* no task is spawned, no channel is created, and active_session,
\* signal_sender, stream_error and muted are as before.
JoinRoomWhileActiveIsNoOp ==
    [][ ( /\ calls'.n = calls.n + 1
          /\ calls'.last = "join_room"
          /\ state.active_session )
        => /\ state' = state
           /\ task' = task ]_vars

\* C36 witness: the second call was a join_room made while the first
\* session was active; the manager still has that one task and session.
JoinRoomWhileActiveWitness ==
    /\ calls = [n |-> 2, last |-> "join_room"]
    /\ Spawned = {1}
    /\ task[1].pc = "streaming"
    /\ state.active_session
    /\ state.signal_sender = 1

----------------------------------------------------------------------------
\* C37: the step in which a streaming task fails (connection,
\* authentication, audio source or datagram send error) leaves the manager
\* in the error state: stream_error holds the error, active_session and
\* signal_sender are None; and an error that is recorded stays recorded
\* until a join_room or exit_room call clears it.
FailureGivesErrorState ==
    [][ /\ \A t \in Tasks :
             (task[t].pc # "failed" /\ task'[t].pc = "failed")
             => /\ state'.stream_error = task'[t].via
                /\ state'.stream_error # "None"
                /\ ~state'.active_session
                /\ state'.signal_sender = NoTask
        /\ (state.stream_error # "None" /\ state'.stream_error = "None")
             => /\ calls'.n = calls.n + 1
                /\ calls'.last \in {"join_room", "exit_room"} ]_vars

\* C37 witness: a task has failed at send_datagram and the manager is in the
\* error state; the last call made was a set_muted, which does not clear it.
FailureGivesErrorStateWitness ==
    \E t \in Tasks :
        /\ task[t].pc = "failed"
        /\ task[t].via = "send_datagram"
        /\ state.stream_error = "send_datagram"
        /\ ~state.active_session
        /\ state.signal_sender = NoTask
        /\ calls.last = "set_muted"

====
